---- MODULE Spec2Model ----
(***************************************************************************)
(* Model of src/src/datasets/four_env_synthetic_folktables.py:             *)
(* FourEnvSyntheticFolktables.__init__ and prepare_four_env_folktables.    *)
(*                                                                         *)
(* A raw record i is (features[i], labels[i], group[i]).  A feature row is *)
(* the five columns <<SCHL, OCCP, WKHP, SEX, AGEP>>; the row's identity is *)
(* carried in its first column so that a misaligned row is visible.        *)
(* Python's 0-based positions are 1-based here: features[:, 3] is row[4].  *)
(*                                                                         *)
(* numpy's and torch's generators are deterministic functions of a         *)
(* process-wide state: npRng and torchRng.  A draw reads the state and     *)
(* advances it; np.random.seed sets it.                                    *)
(***************************************************************************)
EXTENDS Integers, Sequences, FiniteSets, TLC

\* ---------------------------------------------------------------- bounds
\* One model record stands for 4000 / Scale source records.
Scale == 1
\* Number of states of each process-wide generator.
RngMod == 2
\* Constructions of the dataset in one behaviour.
MaxRuns == 2

\* ------------------------------------------------------ program constants
\* np.random.choice(..., size=...) of the four buckets, by environment id.
SampleSize == <<4000, 16000, 16000, 4000>>
\* np.random.seed(42)
SEED == 42
\* Column of SEX in a feature row (features[:, 3]).
SEX_COLUMN == 4

Envs == 0 .. 3

\* The sample size of environment k at the model's scale.
Size(k) == (SampleSize[k + 1] * Scale) \div 4000

\* (group, label) of the bucket that becomes environment k (lines 96-99, 119-122).
BucketGroup(k) == IF k \in {0, 1} THEN 1 ELSE 2
BucketLabel(k) == IF k \in {0, 2} THEN 0 ELSE 1

\* ------------------------------------------------------------- sequences
Range(s) == {s[i] : i \in 1 .. Len(s)}

RECURSIVE Cat(_)
\* torch.cat / np.concatenate of a sequence of sequences.
Cat(ss) == IF ss = <<>> THEN <<>> ELSE Head(ss) \o Cat(Tail(ss))

\* a[idx]: fancy indexing of a by a sequence of positions.
Take(a, idx) == [p \in 1 .. Len(idx) |-> a[idx[p]]]

\* np.where(mask)[0] / torch.where(mask)[0]: the positions where the boolean
\* sequence mask is true, ascending.
RECURSIVE WhereFrom(_, _)
WhereFrom(mask, i) ==
    IF i > Len(mask) THEN <<>>
    ELSE (IF mask[i] THEN <<i>> ELSE <<>>) \o WhereFrom(mask, i + 1)
Where(mask) == WhereFrom(mask, 1)

Count(s, v) == Cardinality({p \in 1 .. Len(s) : s[p] = v})

\* ------------------------------------------------------------ generators
RngStates == 0 .. (RngMod - 1)
\* The state a draw leaves behind.
Adv(s) == (s + 1) % RngMod
\* The i-th number of the stream that state s produces.
Draw(s, i) == (s + 1) * i + s

Swap(a, i, j) == [a EXCEPT ![i] = a[j], ![j] = a[i]]

RECURSIVE FisherYates(_, _, _)
FisherYates(s, a, i) ==
    IF i <= 1 THEN a
    ELSE FisherYates(s, Swap(a, i, (Draw(s, i) % i) + 1), i - 1)

\* A shuffle of sequence a from generator state s.
Shuffle(s, a) == FisherYates(s, a, Len(a))

\* np.random.permutation(n) / torch.randperm(n) from state s.
Permutation(s, n) == Shuffle(s, [p \in 1 .. n |-> p])

\* Mutant: replace=True.
ChoiceWithReplacement(s, a, size) == [p \in 1 .. size |-> a[(Draw(s, p) % Len(a)) + 1]]

\* np.random.choice(a, size=size, replace=False) from state s
\* (defined when size <= Len(a); otherwise numpy raises ValueError).
Choice(s, a, size) == SubSeq(Shuffle(s, a), 1, size)

\* np.random.seed(42)
SeedState == SEED % RngMod
\* torch's default generator in a fresh process: a fixed default seed.
TorchDefaultState == 0

\* ----------------------------------------------------------------- state
VARIABLES
    raw,                 \* the records the data source returns (line 89)
    sibling,             \* synthetic_folktables/test.pt
    files,               \* four_env_synthetic_folktables/<artifact>
    dirExists,           \* the directory four_env_synthetic_folktables
    npRng, torchRng,     \* the process-wide generators of numpy and torch
    pc, err,             \* position in __init__ / prepare, exception raised
    idx,                 \* the four *_idx arrays after np.random.choice
    all_train_indices, env_labels, train_features, train_labels,
    final_train_idx, final_val_idx,
    train_data, val_data, test_data,
    data_label_env_tuples,
    env,                 \* the env argument, once __init__ consults it
    did,                 \* what this invocation has done so far
    startFiles,          \* files when this invocation started
    firstOut,            \* (train, val) of the first full preparation
    runs                 \* constructions so far

vars == <<raw, sibling, files, dirExists, npRng, torchRng, pc, err, idx,
          all_train_indices, env_labels, train_features, train_labels,
          final_train_idx, final_val_idx, train_data, val_data, test_data,
          data_label_env_tuples, env, did, startFiles, firstOut, runs>>

locals == <<idx, all_train_indices, env_labels, train_features, train_labels,
            final_train_idx, final_val_idx, train_data, val_data, test_data>>

\* The artifacts prepare writes, in the order it writes them (lines 249-251).
Written == <<"train.pt", "val.pt", "test.pt">>
\* Every artifact name __init__ may ask for (lines 42-45).
Artifacts == {"train.pt", "val.pt", "test.pt", "all_train.pt"}

NoSplit == <<<<>>, <<>>, <<>>>>
Absent == [status |-> "absent", data |-> NoSplit]
NoIdx == [k \in Envs |-> <<>>]

\* ---------------------------------------------------------------- inputs
\* A feature row <<SCHL, OCCP, WKHP, SEX, AGEP>> of record i.
FeatureRow(i, sex) == <<i, 0, 0, sex, 0>>

RawRecord(k) ==
    CASE k = 0 -> [SEX |-> 1, label |-> 0]
      [] k = 1 -> [SEX |-> 1, label |-> 1]
      [] k = 2 -> [SEX |-> 2, label |-> 0]
      [] k = 3 -> [SEX |-> 2, label |-> 1]

\* counts[k] records of each kind k, kind after kind.
Blocked(counts) == Cat([k \in 1 .. 4 |-> [p \in 1 .. counts[k - 1] |-> RawRecord(k - 1)]])

RECURSIVE RoundRobin(_)
\* counts[k] records of each kind k, one of each kind in turn.
RoundRobin(counts) ==
    IF \A k \in Envs : counts[k] = 0 THEN <<>>
    ELSE Cat([k \in 1 .. 4 |-> IF counts[k - 1] > 0 THEN <<RawRecord(k - 1)>> ELSE <<>>])
         \o RoundRobin([k \in Envs |-> IF counts[k] > 0 THEN counts[k] - 1 ELSE 0])

\* Every bucket holds exactly its sample size, or one record more.
Exact == [k \in Envs |-> Size(k)]
Surplus == [k \in Envs |-> Size(k) + 1]
\* One bucket holds one record fewer than its sample size.
ShortOf(k) == [Exact EXCEPT ![k] = Size(k) - 1]
RawCounts == {Exact, Surplus} \cup {ShortOf(k) : k \in Envs}
RawInputs == {RoundRobin(c) : c \in RawCounts} \cup {Blocked(Surplus)}

\* A sibling test split: rows with any SEX code, label and stored environment id.
TestRows == [SEX : {1, 2, 3}, label : {0, 1}, env : {0, 1}]
SplitOf(rows) == << [p \in 1 .. Len(rows) |-> FeatureRow(p, rows[p].SEX)],
                    [p \in 1 .. Len(rows) |-> rows[p].label],
                    [p \in 1 .. Len(rows) |-> rows[p].env] >>
NoSibling == [exists |-> FALSE, data |-> NoSplit]
\* Two rows in an order that shows: a row of the last case of lines 219-226, then
\* a row no case matches.
TwoRows == <<[SEX |-> 2, label |-> 1, env |-> 0], [SEX |-> 3, label |-> 1, env |-> 1]>>
\* No sibling artifact, the empty split, every split of one row, and TwoRows.
Siblings == {NoSibling}
            \cup {[exists |-> TRUE, data |-> SplitOf(rows)] :
                    rows \in {<<>>, TwoRows} \cup {<<r>> : r \in TestRows}}
FewSiblings == {NoSibling, [exists |-> TRUE, data |-> SplitOf(TwoRows)]}

\* The inputs <<raw, sibling, npRng, torchRng>>: every raw input with two of the
\* siblings and the generators in any state, and every sibling with one raw input
\* and the generators as a seeded numpy and a fresh torch have them.
Inputs == (RawInputs \X FewSiblings \X RngStates \X RngStates)
          \cup ({RoundRobin(Surplus)} \X Siblings \X {SeedState} \X {TorchDefaultState})

\* features, labels, group = ACSIncomeNew.df_to_numpy(train_data)   (line 92)
features == [i \in 1 .. Len(raw) |-> FeatureRow(i, raw[i].SEX)]
labels == [i \in 1 .. Len(raw) |-> raw[i].label]
group == [i \in 1 .. Len(raw) |-> raw[i].SEX]

Init ==
    /\ \E in \in Inputs :
          raw = in[1] /\ sibling = in[2] /\ npRng = in[3] /\ torchRng = in[4]
    /\ files = [a \in Artifacts |-> Absent]
    /\ dirExists = FALSE
    /\ pc = "idle"
    /\ err = "none"
    /\ idx = NoIdx
    /\ all_train_indices = <<>>
    /\ env_labels = <<>>
    /\ train_features = <<>>
    /\ train_labels = <<>>
    /\ final_train_idx = <<>>
    /\ final_val_idx = <<>>
    /\ train_data = NoSplit
    /\ val_data = NoSplit
    /\ test_data = NoSplit
    /\ data_label_env_tuples = NoSplit
    /\ env = "unset"
    /\ did = {}
    /\ startFiles = [a \in Artifacts |-> Absent]
    /\ firstOut = [set |-> FALSE, train |-> NoSplit, val |-> NoSplit]
    /\ runs = 0

\* --------------------------------------------------------------- helpers
RECURSIVE AdvN(_, _)
\* The generator state after n draws.
AdvN(s, n) == IF n = 0 THEN s ELSE AdvN(Adv(s), n - 1)

ClearLocals ==
    /\ idx' = NoIdx
    /\ all_train_indices' = <<>>
    /\ env_labels' = <<>>
    /\ train_features' = <<>>
    /\ train_labels' = <<>>
    /\ final_train_idx' = <<>>
    /\ final_val_idx' = <<>>
    /\ train_data' = NoSplit
    /\ val_data' = NoSplit
    /\ test_data' = NoSplit

\* An exception leaves prepare / __init__: the locals are gone.
Raise(e) ==
    /\ err' = e
    /\ pc' = "raised"
    /\ ClearLocals

\* BaseFolktablesDataset._check_prepared_data(name, [train.pt, val.pt, test.pt]):
\* every listed artifact exists at its path.
CheckPreparedData(f) == \A p \in 1 .. Len(Written) : f[Written[p]].status # "absent"

\* -------------------------------------------------------------- __init__
\* FourEnvSyntheticFolktables(root, env, ...): super().__init__, then prepare.
Construct ==
    /\ pc \in {"idle", "ready", "raised"}
    /\ runs < MaxRuns
    /\ runs' = runs + 1
    /\ pc' = "gate"
    /\ err' = "none"
    /\ did' = {}
    /\ startFiles' = files
    /\ data_label_env_tuples' = NoSplit
    /\ env' = "unset"
    /\ ClearLocals
    /\ UNCHANGED <<raw, sibling, files, dirExists, npRng, torchRng, firstOut>>

\* Mutant: the check is made and its result ignored.
AfterGateNoReturn(prepared) == "subsample"

\* Where prepare goes after the check of lines 69-71.
AfterGate(prepared) == IF prepared THEN "load" ELSE "subsample"

\* Lines 69-71: return at once when the three artifacts exist.
CheckPrepared ==
    /\ pc = "gate"
    /\ pc' = AfterGate(CheckPreparedData(files))
    /\ UNCHANGED <<raw, sibling, files, dirExists, npRng, torchRng, err, locals,
                   data_label_env_tuples, env, did, startFiles, firstOut, runs>>

\* ------------------------------------------------------------ partitioner
\* (group == g) & (labels == l)
Mask(g, l) == [i \in 1 .. Len(raw) |-> group[i] = g /\ labels[i] = l]
\* Lines 96-99: the index set of the bucket that becomes environment k.
Bucket(k) == Where(Mask(BucketGroup(k), BucketLabel(k)))

\* np.random.choice raises when the bucket is smaller than the sample.
Short(k) == Len(Bucket(k)) < Size(k)
\* The calls of lines 107-110 run in the order of the environment ids.
FirstShort == CHOOSE k \in Envs : Short(k) /\ \A j \in Envs : Short(j) => k <= j

\* Lines 107-110: the k-th call draws from the state the calls before it left.
Sampled(s) == [k \in Envs |-> Choice(AdvN(s, k), Bucket(k), Size(k))]

\* Lines 76-110: fetch, df_to_numpy, the four buckets and their subsamples.
Subsample ==
    /\ pc = "subsample"
    /\ did' = did \cup {"fetch", "partition"}
    /\ IF \E k \in Envs : Short(k)
       THEN /\ npRng' = AdvN(npRng, FirstShort)
            /\ Raise("ValueError")
       ELSE /\ npRng' = AdvN(npRng, 4)
            /\ idx' = Sampled(npRng)
            /\ pc' = "pool"
            /\ UNCHANGED <<err, all_train_indices, env_labels, train_features,
                           train_labels, final_train_idx, final_val_idx,
                           train_data, val_data, test_data>>
    /\ UNCHANGED <<raw, sibling, files, dirExists, torchRng,
                   data_label_env_tuples, env, startFiles, firstOut, runs>>

\* Line 125: np.concatenate([env0_indices, ..., env3_indices])
ConcatIndices(ix) == Cat([k \in 1 .. 4 |-> ix[k - 1]])
\* Mutant: the last block labelled like the third.
ConcatEnvLabelsCopied(ix) ==
    Cat([k \in 1 .. 4 |-> [p \in 1 .. Len(ix[k - 1]) |-> IF k = 4 THEN 2 ELSE k - 1]])

\* Lines 128-133: one block of environment ids per bucket.
ConcatEnvLabels(ix) == Cat([k \in 1 .. 4 |-> [p \in 1 .. Len(ix[k - 1]) |-> k - 1]])
\* Line 136, after np.random.seed(42) of line 116.
ShuffleIndices(n) == Permutation(SeedState, n)
\* Lines 137-138: the same shuffle_indices index both arrays.
ShuffledIndices(ix) == Take(ConcatIndices(ix), ShuffleIndices(Len(ConcatIndices(ix))))
\* Mutant: the environment ids are left in block order.
UnshuffledEnvLabels(ix) == ConcatEnvLabels(ix)
ShuffledEnvLabels(ix) == Take(ConcatEnvLabels(ix), ShuffleIndices(Len(ConcatEnvLabels(ix))))

\* Lines 116-143: seed, concatenate, label, shuffle, extract.
BuildPool ==
    /\ pc = "pool"
    /\ npRng' = Adv(SeedState)
    /\ all_train_indices' = ShuffledIndices(idx)
    /\ env_labels' = ShuffledEnvLabels(idx)
    /\ train_features' = Take(features, ShuffledIndices(idx))
    /\ train_labels' = Take(labels, ShuffledIndices(idx))
    /\ pc' = "split"
    /\ UNCHANGED <<raw, sibling, files, dirExists, torchRng, err, idx,
                   final_train_idx, final_val_idx, train_data, val_data, test_data,
                   data_label_env_tuples, env, did, startFiles, firstOut, runs>>

\* --------------------------------------------------------------- splitter
RECURSIVE SortedSeq(_)
SortedSeq(S) ==
    IF S = {} THEN <<>>
    ELSE LET m == CHOOSE x \in S : \A y \in S : x <= y
         IN <<m>> \o SortedSeq(S \ {m})

\* Line 168: torch.unique(env_labels), sorted.
UniqueEnvs(envs) == SortedSeq(Range(envs))
\* Lines 173-174: torch.where(env_labels == env_id)[0]
EnvIndices(envs, e) == Where([p \in 1 .. Len(envs) |-> envs[p] = e])
\* Mutant: round(0.8 * n_env_samples)
TrainSizeRounded(n) == (8 * n + 5) \div 10
\* Line 178: int(0.8 * n_env_samples)
TrainSize(n) == (8 * n) \div 10
\* Line 180: env_indices[torch.randperm(n_env_samples)], the j-th draw of the loop.
ShuffledEnvIndices(envs, s, j) ==
    Take(EnvIndices(envs, UniqueEnvs(envs)[j]),
         Permutation(AdvN(s, j - 1), Len(EnvIndices(envs, UniqueEnvs(envs)[j]))))
\* Line 181: shuffled_env_indices[:train_size]
TrainPart(sh) == SubSeq(sh, 1, TrainSize(Len(sh)))
\* Line 182: shuffled_env_indices[train_size:]
ValPart(sh) == SubSeq(sh, TrainSize(Len(sh)) + 1, Len(sh))
\* Line 185
TrainIndicesCat(envs, s) ==
    Cat([j \in 1 .. Len(UniqueEnvs(envs)) |-> TrainPart(ShuffledEnvIndices(envs, s, j))])
\* Line 186
ValIndicesCat(envs, s) ==
    Cat([j \in 1 .. Len(UniqueEnvs(envs)) |-> ValPart(ShuffledEnvIndices(envs, s, j))])
\* Line 189: the draw after the loop's.
FinalTrainIdx(envs, s) ==
    Take(TrainIndicesCat(envs, s),
         Permutation(AdvN(s, Len(UniqueEnvs(envs))), Len(TrainIndicesCat(envs, s))))
\* Line 190: the draw after that.
FinalValIdx(envs, s) ==
    Take(ValIndicesCat(envs, s),
         Permutation(AdvN(s, Len(UniqueEnvs(envs)) + 1), Len(ValIndicesCat(envs, s))))
\* Lines 192-201: the three arrays indexed by the same index sequence.
SplitData(f, l, e, ix) == <<Take(f, ix), Take(l, ix), Take(e, ix)>>

\* Lines 163-201: the per-environment split into train and val.
Split ==
    /\ pc = "split"
    /\ final_train_idx' = FinalTrainIdx(env_labels, torchRng)
    /\ final_val_idx' = FinalValIdx(env_labels, torchRng)
    /\ train_data' = SplitData(train_features, train_labels, env_labels,
                               FinalTrainIdx(env_labels, torchRng))
    /\ val_data' = SplitData(train_features, train_labels, env_labels,
                             FinalValIdx(env_labels, torchRng))
    /\ torchRng' = AdvN(torchRng, Len(UniqueEnvs(env_labels)) + 2)
    /\ pc' = "test"
    /\ UNCHANGED <<raw, sibling, files, dirExists, npRng, err, idx,
                   all_train_indices, env_labels, train_features, train_labels,
                   test_data, data_label_env_tuples, env, did, startFiles, firstOut, runs>>

\* -------------------------------------------------------- test reconciler
\* Lines 215-226: the environment id of a test row; 0 when no case matches.
TestEnv(gender, income) ==
    IF gender = 1 /\ income = 0 THEN 0
    ELSE IF gender = 1 /\ income = 1 THEN 1
    ELSE IF gender = 2 /\ income = 0 THEN 2
    ELSE IF gender = 2 /\ income = 1 THEN 3
    ELSE 0

\* Line 212: test_features[:, 3]
TestGender(test_features) == [i \in 1 .. Len(test_features) |-> test_features[i][SEX_COLUMN]]

\* Mutant: the sibling's environment ids are kept.
ReconcileKeepEnv(loaded) == loaded

\* Lines 207-228: features and labels as loaded, environment ids recomputed.
Reconcile(loaded) ==
    << loaded[1], loaded[2],
       [i \in 1 .. Len(loaded[1]) |-> TestEnv(TestGender(loaded[1])[i], loaded[2][i])] >>

\* Mutant: the existence check is dropped.
SiblingAssumed(sib) == TRUE
\* Line 205: os.path.exists(synthetic_test_path)
SiblingFound(sib) == sib.exists

\* Lines 203-245: load the sibling's test split or raise FileNotFoundError.
LoadTest ==
    /\ pc = "test"
    /\ IF SiblingFound(sibling)
       THEN /\ test_data' = Reconcile(sibling.data)
            /\ did' = did \cup {"readSibling"}
            /\ pc' = "mkdir"
            /\ UNCHANGED <<err, idx, all_train_indices, env_labels, train_features,
                           train_labels, final_train_idx, final_val_idx,
                           train_data, val_data>>
       ELSE /\ Raise("FileNotFoundError")
            /\ UNCHANGED did
    /\ UNCHANGED <<raw, sibling, files, dirExists, npRng, torchRng,
                   data_label_env_tuples, env, startFiles, firstOut, runs>>

\* ------------------------------------------------------------ persistence
\* Line 248: BaseFolktablesDataset._create_data_dir
CreateDir ==
    /\ pc = "mkdir"
    /\ dirExists' = TRUE
    /\ did' = did \cup {"mkdir"}
    /\ pc' = "save1"
    /\ UNCHANGED <<raw, sibling, files, npRng, torchRng, err, locals,
                   data_label_env_tuples, env, startFiles, firstOut, runs>>

\* The tuple torch.save writes to the p-th artifact (lines 249-251).
SavedData(p) == CASE p = 1 -> train_data [] p = 2 -> val_data [] p = 3 -> test_data

\* torch.save opens the artifact's own path for writing: the file exists from
\* here on, truncated, with no tuple that can be read back.
OpenArtifact(f, p) == [f EXCEPT ![Written[p]] = [status |-> "partial", data |-> NoSplit]]
\* torch.save has written the whole tuple and closed the file.
CloseArtifact(f, p) == [f EXCEPT ![Written[p]] = [status |-> "complete", data |-> SavedData(p)]]

\* Lines 249-251, first half of each torch.save.
BeginSave ==
    \E p \in 1 .. 3 :
        /\ pc = <<"save1", "save2", "save3">>[p]
        /\ files' = OpenArtifact(files, p)
        /\ did' = did \cup {"write", Written[p]}
        /\ pc' = <<"write1", "write2", "write3">>[p]
        /\ UNCHANGED <<raw, sibling, dirExists, npRng, torchRng, err, locals,
                       data_label_env_tuples, env, startFiles, firstOut, runs>>

\* Lines 249-251, second half of each torch.save.
EndSave ==
    \E p \in 1 .. 3 :
        /\ pc = <<"write1", "write2", "write3">>[p]
        /\ files' = CloseArtifact(files, p)
        /\ pc' = <<"save2", "save3", "report">>[p]
        /\ UNCHANGED <<raw, sibling, dirExists, npRng, torchRng, err, locals,
                       data_label_env_tuples, env, did, startFiles, firstOut, runs>>

EmptyDir(f) == \A a \in Artifacts : f[a].status = "absent"

\* Lines 253-274: the reports; prepare returns.
Report ==
    /\ pc = "report"
    /\ pc' = "load"
    /\ firstOut' = IF ~firstOut.set /\ EmptyDir(startFiles)
                   THEN [set |-> TRUE, train |-> train_data, val |-> val_data]
                   ELSE firstOut
    /\ ClearLocals
    /\ UNCHANGED <<raw, sibling, files, dirExists, npRng, torchRng, err,
                   data_label_env_tuples, env, did, startFiles, runs>>

\* ------------------------------------------------------- __init__, again
\* The env values of the docstring (line 33), and one that is none of them.
EnvArgs == {"train", "val", "test", "all_train", "other"}

\* The split name __init__ hands to _load_prepared_data (lines 42-45).
LoadedSplit(e) == IF e \in {"train", "val", "test"} THEN e ELSE "all_train"

\* BaseFolktablesDataset._load_prepared_data(name, split) reads <split>.pt.
ArtifactOf(split) ==
    CASE split = "train" -> "train.pt"
      [] split = "val" -> "val.pt"
      [] split = "test" -> "test.pt"
      [] split = "all_train" -> "all_train.pt"

\* Lines 42-47: load the split env names, or reject env.
Load ==
    /\ pc = "load"
    /\ \E e \in EnvArgs :
        /\ env' = e
        /\ IF e \in {"train", "val", "test", "all_train"}
           THEN CASE files[ArtifactOf(LoadedSplit(e))].status = "complete" ->
                       /\ data_label_env_tuples' = files[ArtifactOf(LoadedSplit(e))].data
                       /\ pc' = "ready"
                       /\ UNCHANGED <<err, locals>>
                  [] files[ArtifactOf(LoadedSplit(e))].status = "partial" ->
                       /\ Raise("UnpicklingError")
                       /\ UNCHANGED data_label_env_tuples
                  [] files[ArtifactOf(LoadedSplit(e))].status = "absent" ->
                       /\ Raise("FileNotFoundError")
                       /\ UNCHANGED data_label_env_tuples
           ELSE /\ Raise("RuntimeError")
                /\ UNCHANGED data_label_env_tuples
    /\ UNCHANGED <<raw, sibling, files, dirExists, npRng, torchRng, did,
                   startFiles, firstOut, runs>>

\* ----------------------------------------------------------- environment
Running == {"gate", "subsample", "pool", "split", "test", "mkdir", "save1", "write1",
            "save2", "write2", "save3", "write3", "report", "load"}

\* The process dies at any point of __init__.
Crash ==
    /\ pc \in Running
    /\ pc' = "crashed"
    /\ ClearLocals
    /\ UNCHANGED <<raw, sibling, files, dirExists, npRng, torchRng, err,
                   data_label_env_tuples, env, did, startFiles, firstOut, runs>>

\* A new process: numpy seeds its generator from the system's entropy, torch
\* from its default seed; nothing of the old process's memory is left.
NewProcess ==
    /\ pc \in {"ready", "raised", "crashed"}
    /\ npRng' \in RngStates
    /\ torchRng' = TorchDefaultState
    /\ pc' = "idle"
    /\ err' = "none"
    /\ env' = "unset"
    /\ did' = {}
    /\ data_label_env_tuples' = NoSplit
    /\ startFiles' = files
    /\ ClearLocals
    /\ UNCHANGED <<raw, sibling, files, dirExists, firstOut, runs>>

\* The output directory is removed between two constructions.
ClearCache ==
    /\ pc \in {"idle", "ready", "raised"}
    /\ ~EmptyDir(files)
    /\ files' = [a \in Artifacts |-> Absent]
    /\ dirExists' = FALSE
    /\ UNCHANGED <<raw, sibling, npRng, torchRng, pc, err, locals,
                   data_label_env_tuples, env, did, startFiles, firstOut, runs>>

Next ==
    \/ Construct
    \/ CheckPrepared
    \/ Subsample
    \/ BuildPool
    \/ Split
    \/ LoadTest
    \/ CreateDir
    \/ BeginSave
    \/ EndSave
    \/ Report
    \/ Load
    \/ Crash
    \/ NewProcess
    \/ ClearCache

Spec == Init /\ [][Next]_vars

\* ================================================================ claims
\* The environment table of the specification's data model.
EnvId(g, l) ==
    CASE g = 1 /\ l = 0 -> 0
      [] g = 1 /\ l = 1 -> 1
      [] g = 2 /\ l = 0 -> 2
      [] g = 2 /\ l = 1 -> 3

\* pc while the pool, the two splits, the test split are held by prepare.
PoolPcs == {"split", "test", "mkdir", "save1", "write1", "save2", "write2", "save3",
            "write3", "report"}
SplitPcs == PoolPcs \ {"split"}
TestPcs == SplitPcs \ {"test"}
\* pc of an invocation that has started and is not yet forgotten.
InvocationPcs == Running \cup {"ready", "raised", "crashed"}

NoDuplicates(a) == Cardinality(Range(a)) = Len(a)
SameLength(split) == Len(split[1]) = Len(split[2]) /\ Len(split[2]) = Len(split[3])
TotalSize == Size(0) + Size(1) + Size(2) + Size(3)

\* C1: an invocation that finds train.pt, val.pt and test.pt in place goes from
\* the check straight to the load, changes no artifact, and neither fetches,
\* partitions, reads the sibling, creates the directory nor writes; this is so
\* for the first and for every later invocation.
C1_GateIdempotent ==
    (pc \in InvocationPcs /\ CheckPreparedData(startFiles)) =>
        /\ did = {}
        /\ pc \in Running => (pc \in {"gate", "load"} /\ files = startFiles)

\* C1 witness: a second invocation has passed the check with the three complete
\* artifacts of the first in place.
C1_Witness ==
    /\ pc = "load"
    /\ runs = 2
    /\ \A a \in Range(Written) : startFiles[a].status = "complete"
    /\ files = startFiles

RowsOwnEnv(split) ==
    /\ SameLength(split)
    /\ \A p \in 1 .. Len(split[1]) :
        /\ split[1][p] = features[split[1][p][1]]
        /\ split[2][p] = labels[split[1][p][1]]
        /\ split[3][p] = EnvId(group[split[1][p][1]], split[2][p])

\* C3: in the pool, in train and val, and in the persisted train.pt and val.pt,
\* every row carries the features and the label of one source record and the
\* environment id of that record's (group, label); the three sequences of each
\* have one length.
C3_EnvOfOwnRecord ==
    /\ pc \in PoolPcs =>
        /\ RowsOwnEnv(<<train_features, train_labels, env_labels>>)
        /\ \A p \in 1 .. Len(all_train_indices) :
              train_features[p] = features[all_train_indices[p]]
    /\ pc \in SplitPcs => RowsOwnEnv(train_data) /\ RowsOwnEnv(val_data)
    /\ \A a \in {"train.pt", "val.pt"} :
          files[a].status = "complete" => RowsOwnEnv(files[a].data)

\* C3 witness: train.pt and val.pt are persisted with rows of several environments.
C3_Witness ==
    /\ pc = "report"
    /\ files["train.pt"].status = "complete"
    /\ files["val.pt"].status = "complete"
    /\ Cardinality(Range(files["train.pt"].data[3])) > 1
    /\ Len(files["val.pt"].data[3]) > 0

\* C4: of the n rows of each environment of the pool, floor(0.8 n) are in train
\* and the other n - floor(0.8 n) in val; every pool row is in exactly one of the
\* two, once; the lengths add up to the pool's.
C4_StratifiedSplit ==
    pc \in SplitPcs =>
        /\ \A k \in Range(env_labels) :
            /\ Count(train_data[3], k) = (4 * Count(env_labels, k)) \div 5
            /\ Count(val_data[3], k) =
                  Count(env_labels, k) - (4 * Count(env_labels, k)) \div 5
        /\ Range(final_train_idx) \cup Range(final_val_idx) = 1 .. Len(env_labels)
        /\ Range(final_train_idx) \cap Range(final_val_idx) = {}
        /\ NoDuplicates(final_train_idx)
        /\ NoDuplicates(final_val_idx)
        /\ Len(train_data[1]) + Len(val_data[1]) = Len(env_labels)
        /\ train_data = SplitData(train_features, train_labels, env_labels, final_train_idx)
        /\ val_data = SplitData(train_features, train_labels, env_labels, final_val_idx)

\* C4 witness: a split with rows in train and in val, and an environment whose
\* size is no multiple of 5.
C4_Witness ==
    /\ pc = "test"
    /\ Len(train_data[1]) > 0
    /\ Len(val_data[1]) > 0
    /\ \E k \in Range(env_labels) : (Count(env_labels, k) % 5) # 0

\* The environment id of a test row by the rule of the specification.
TestRule(sex, label) == IF sex \in {1, 2} /\ label \in {0, 1} THEN EnvId(sex, label) ELSE 0

\* C5: the test split has the sibling's features and labels, in the sibling's
\* order, and row i has the environment id of its own SEX column and label:
\* the table's, or 0 when the table has no case for them; the same holds of the
\* persisted test.pt.
C5_TestReconciled ==
    /\ pc \in TestPcs =>
        /\ test_data[1] = sibling.data[1]
        /\ test_data[2] = sibling.data[2]
        /\ SameLength(test_data)
        /\ \A i \in 1 .. Len(test_data[1]) :
              test_data[3][i] = TestRule(test_data[1][i][4], test_data[2][i])
    /\ files["test.pt"].status = "complete" =>
        /\ files["test.pt"].data[1] = sibling.data[1]
        /\ files["test.pt"].data[2] = sibling.data[2]
        /\ \A i \in 1 .. Len(sibling.data[1]) :
              files["test.pt"].data[3][i] =
                  TestRule(sibling.data[1][i][4], sibling.data[2][i])

\* C5 witness: a test split of two rows whose recomputed environment ids differ
\* from the sibling's, one of them by the default.
C5_Witness ==
    /\ pc = "mkdir"
    /\ Len(test_data[1]) = 2
    /\ test_data[3] # sibling.data[3]
    /\ \E i \in 1 .. 2 : test_data[1][i][4] = 3 /\ test_data[3][i] = 0

\* Nothing of the output was touched by this invocation.
NothingPersisted == did \cap ({"mkdir", "write"} \cup Range(Written)) = {}

NoFallback ==
    /\ pc \notin {"mkdir", "save1", "write1", "save2", "write2", "save3", "write3",
                  "report", "load", "ready"}
    /\ test_data = NoSplit
    /\ "readSibling" \notin did
    /\ NothingPersisted
    /\ ~CheckPreparedData(files)
    /\ pc \in Running => files = startFiles

\* C7 as stated: whenever the artifacts are not all present and the sibling's
\* test.pt does not exist, the invocation ends in the missing-sibling error
\* (FileNotFoundError), with no fallback and nothing persisted.
C7_AsStated ==
    (pc \in InvocationPcs /\ ~CheckPreparedData(startFiles) /\ ~sibling.exists) =>
        /\ NoFallback
        /\ pc = "raised" => err = "FileNotFoundError"

\* C7 amended: the same, for the invocations whose four subsamples succeed (every
\* bucket holds at least its sample size).
C7_MissingSibling ==
    (pc \in InvocationPcs /\ ~CheckPreparedData(startFiles) /\ ~sibling.exists) =>
        /\ NoFallback
        /\ (pc = "raised" /\ \A k \in Envs : ~Short(k)) => err = "FileNotFoundError"
        /\ (pc = "raised" /\ \E k \in Envs : Short(k)) => err = "ValueError"

\* C7 witness: an invocation that subsampled and split has ended in the
\* missing-sibling error.
C7_Witness ==
    /\ pc = "raised"
    /\ err = "FileNotFoundError"
    /\ ~sibling.exists
    /\ ~CheckPreparedData(startFiles)
    /\ {"fetch", "partition"} \subseteq did
    /\ NothingPersisted

\* C8: two preparations from an empty output directory, of the same raw input,
\* produce the same train and val splits.
C8_Deterministic ==
    (pc = "report" /\ firstOut.set /\ EmptyDir(startFiles)) =>
        /\ train_data = firstOut.train
        /\ val_data = firstOut.val

\* C9: a construction that has prepared the dataset from an empty output
\* directory loads its split for each of train, val, test and all_train, and
\* ends in RuntimeError for any other env.
C9_AcceptedEnvLoads ==
    (pc \in {"ready", "raised"} /\ env # "unset" /\ EmptyDir(startFiles)
        /\ Range(Written) \subseteq did) =>
        /\ env \in {"train", "val", "test", "all_train"} => pc = "ready"
        /\ env = "other" => (pc = "raised" /\ err = "RuntimeError")

\* C10: after a crash the output holds none of the invocation's artifacts or all
\* three of them complete, and the presence check passes only on three complete
\* artifacts.
C10_AllOrNothing ==
    /\ pc = "crashed" =>
        \/ did \cap Range(Written) = {}
        \/ /\ Range(Written) \subseteq did
           /\ \A a \in Range(Written) : files[a].status = "complete"
    /\ CheckPreparedData(files) => \A a \in Range(Written) : files[a].status = "complete"

====
